---- MODULE Spec2Model ----
(***************************************************************************)
(* A model of engineio.client.Client (src/engineio/client.py): the session *)
(* fields, the outbound queue objects with their task_done/join            *)
(* accounting, the WebSocket objects, the application thread (connect,     *)
(* send, disconnect) and the three background tasks every successful       *)
(* connect starts (_ping_task, _writer_task, read_loop).                   *)
(*                                                                         *)
(* A thread runs from one blocking call to the next in one step: the HTTP  *)
(* requests, recv, the sleep of the prober, the get of the writer, the     *)
(* joins.  Beside these, steps end between the state check of disconnect   *)
(* (188) and its puts, between the check (438) and the put (440) of a      *)
(* send, and between the get of a batch and its hand-off to the transport. *)
(* A started task runs to its first blocking call within the step that     *)
(* starts it.  Tasks of connect call k keep the index k for their life, so *)
(* tasks of an earlier session that have not ended stay in the model.      *)
(***************************************************************************)
EXTENDS Integers, Sequences, FiniteSets, TLC

\* ------------------------------------------------------------------ bounds
\* connect calls that pass the state check (each creates a queue object)
MaxConnects == 2
\* MESSAGE packets the application sends
MaxSends == 1
\* PONG packets the server delivers
MaxPongs == 1
\* background tasks of earlier connects still running when connect is called
\* (a reader that only waits for its writer to end is not counted)
MaxStale == 1
\* items of earlier connects still to be handled (in a queue a thread waits
\* on, in the batch of a writer) when connect is called
MaxStalePackets == 0

\* ------------------------------------------------------------- value sets
None == "None"
\* the sid of the OPEN descriptor the server sends to connect call k
ServerSid(k) == IF k = 1 THEN "s1" ELSE "s2"
\* the transports arguments an application passes to connect (None is the
\* default, a list may hold invalid names)
TransportArgs ==
    {[given |-> FALSE, names |-> <<>>],
     [given |-> TRUE, names |-> <<"polling">>],
     [given |-> TRUE, names |-> <<"websocket">>],
     [given |-> TRUE, names |-> <<"bogus">>]}
\* the upgrades of that descriptor: the first server offers websocket, the
\* later ones offer nothing
ServerUpgrades(k) == IF k = 1 THEN {"websocket"} ELSE {}

Conns == 1..MaxConnects

Sentinel == [type |-> "None", id |-> 0]
Pkt(type, id) == [type |-> type, id |-> id]

VARIABLES
    \* fields of Client
    state, sid, current_transport, transports, upgrades, pong_received,
    ws, read_loop_task, queue,
    \* objects the fields refer to: queue.Queue contents and unfinished_tasks,
    \* WebSocket connections ("none", "open", "closed")
    queues, unfinished, wsobj,
    \* module-level registry and the handlers' invocation counts
    connected_clients, handler_calls,
    \* the application thread: where it is, what its last call returned
    app_pc, app_result,
    \* the background tasks of connect call k: position, and locals
    ping_pc, writer_pc, reader_pc, reader_kind, packets, writer_q, reader_ws,
    \* locals of the running disconnect call
    dc_abort, dc_q, dc_r,
    \* counters: connect calls, messages sent, PONGs delivered, packets enqueued;
    \* sent is the sequence of packet ids handed to a transport
    nconn, nsend, npong, nput, sent,
    \* history of the PINGs: how many the running prober k has enqueued, whether
    \* pong_received was set since its last one, and whether the last PING of
    \* the client ("none" before the first) was followed by a PONG
    pings, rearmed, last_ping

fields == <<state, sid, current_transport, transports, upgrades, pong_received,
            ws, read_loop_task, queue>>
objects == <<queues, unfinished, wsobj>>
globals == <<connected_clients, handler_calls>>
appvars == <<app_pc, app_result>>
taskvars == <<ping_pc, writer_pc, reader_pc, reader_kind, packets, writer_q,
              reader_ws>>
dcvars == <<dc_abort, dc_q, dc_r>>
counters == <<nconn, nsend, npong, nput, sent>>
history == <<pings, rearmed, last_ping>>
vars == <<fields, objects, globals, appvars, taskvars, dcvars, counters,
          history>>

\* ------------------------------------------------------------------ Init
\* Client.__init__.  The fields transports and upgrades are None there; they
\* are written <<>> and {} (connect never stores an empty list, and upgrades
\* is never read)
Init ==
    /\ state = "disconnected"
    /\ sid = None
    /\ current_transport = None
    /\ transports = <<>>
    /\ upgrades = {}
    /\ pong_received = TRUE
    /\ ws = 0
    /\ read_loop_task = 0
    /\ queue = 0
    /\ queues = [q \in Conns |-> <<>>]
    /\ unfinished = [q \in Conns |-> 0]
    /\ wsobj = [w \in Conns |-> "none"]
    /\ connected_clients = 0
    /\ handler_calls = [connect |-> 0, disconnect |-> 0]
    /\ app_pc = "idle"
    /\ app_result = "none"
    /\ ping_pc = [k \in Conns |-> "none"]
    /\ writer_pc = [k \in Conns |-> "none"]
    /\ reader_pc = [k \in Conns |-> "none"]
    /\ reader_kind = [k \in Conns |-> None]
    /\ packets = [k \in Conns |-> <<>>]
    /\ writer_q = [k \in Conns |-> 0]
    /\ reader_ws = [k \in Conns |-> 0]
    /\ dc_abort = FALSE
    /\ dc_q = 0
    /\ dc_r = 0
    /\ nconn = 0
    /\ nsend = 0
    /\ npong = 0
    /\ nput = 0
    /\ sent = <<>>
    /\ pings = [k \in Conns |-> 0]
    /\ rearmed = [k \in Conns |-> FALSE]
    /\ last_ping = "none"

\* ------------------------------------------------------------- helpers
\* queue.Queue.put of the items, in order: each adds one unfinished task
PutAll(qs, q, items) == [qs EXCEPT ![q] = @ \o items]
MorePending(un, q, n) == [un EXCEPT ![q] = @ + n]

\* a task that was started and has not ended
Live(pc) == pc \notin {"none", "done"}

\* Client._reset
Reset == state' = "disconnected"

\* Client._trigger_event(event): handlers are invoked synchronously
TriggerEvent(event) ==
    handler_calls' = [handler_calls EXCEPT ![event] = @ + 1]

\* connect: the list comprehension keeping the valid transports
ValidOnly(tr) == SelectSeq(tr, LAMBDA t : t \in {"polling", "websocket"})

\* connect: transports or valid_transports
Effective(tr) ==
    IF tr.given THEN ValidOnly(tr.names) ELSE <<"polling", "websocket">>

HasWebsocket(tr) == \E i \in 1..Len(tr) : tr[i] = "websocket"

\* start_background_task of _ping_task, _writer_task and read_loop, and the
\* assignment of read_loop_task, for connect call k (lines 293-294 and 332,
\* 384-385 and 416).  Each started thread runs to its first blocking call:
\* the prober sets pong_received (498) and, if connected, clears it, enqueues
\* its first PING and sleeps (499-510); the writer tests the state and waits
\* on the queue (517-520); the reader tests the state and waits for the reply
\* or the frame (298-302, 389-392), or leaves.  st and w are the state and
\* the socket at that moment
StartTasks(k, kind, st, w) ==
    /\ reader_kind' = [reader_kind EXCEPT ![k] = kind]
    /\ read_loop_task' = k
    /\ IF st = "connected"
       THEN /\ pong_received' = FALSE
            /\ queues' = PutAll(queues, queue, <<Pkt("PING", nput + 1)>>)
            /\ unfinished' = MorePending(unfinished, queue, 1)
            /\ nput' = nput + 1
            /\ ping_pc' = [ping_pc EXCEPT ![k] = "p_sleep"]
            /\ writer_pc' = [writer_pc EXCEPT ![k] = "w_get"]
            /\ writer_q' = [writer_q EXCEPT ![k] = queue]
            /\ reader_pc' = [reader_pc EXCEPT ![k] = "r_wait"]
            /\ reader_ws' = [reader_ws EXCEPT ![k] =
                   IF kind = "websocket" THEN w ELSE 0]
            /\ pings' = [pings EXCEPT ![k] = 1]
            /\ rearmed' = [j \in Conns |-> j # k /\ pings[j] > 0]
            /\ last_ping' = "unanswered"
       ELSE /\ pong_received' = TRUE
            /\ ping_pc' = [ping_pc EXCEPT ![k] = "done"]
            /\ writer_pc' = [writer_pc EXCEPT ![k] = "done"]
            /\ reader_pc' = [reader_pc EXCEPT ![k] = "r_join"]
            /\ rearmed' = [j \in Conns |-> pings[j] > 0]
            /\ UNCHANGED <<queues, unfinished, nput, writer_q, reader_ws,
                           pings, last_ping>>

NoTaskStarts ==
    UNCHANGED <<ping_pc, writer_pc, reader_pc, reader_kind, read_loop_task,
                pong_received, queues, unfinished, nput, writer_q, reader_ws,
                history>>

\* --------------------------------------------------------------- connect
\* ConnectRejected with the state check made after line 154
ConnectRejectedLate ==
    /\ app_pc = "idle"
    /\ state # "disconnected"
    /\ transports' = <<"polling", "websocket">>
    /\ app_result' = "raised"
    /\ UNCHANGED <<state, sid, current_transport, upgrades, pong_received, ws,
                   read_loop_task, queue, objects, globals, app_pc, taskvars,
                   dcvars, counters, history>>

\* connect, lines 144-145: the state check fails
ConnectRejected ==
    /\ app_pc = "idle"
    /\ state # "disconnected"
    /\ app_result' = "raised"
    /\ UNCHANGED <<fields, objects, globals, app_pc, taskvars, dcvars, counters>>
    /\ UNCHANGED history

\* connect, lines 146-153: no valid transport is left
ConnectNoValid(tr) ==
    /\ app_pc = "idle"
    /\ state = "disconnected"
    /\ tr.given /\ ValidOnly(tr.names) = <<>>
    /\ app_result' = "raised"
    /\ UNCHANGED <<fields, objects, globals, app_pc, taskvars, dcvars, counters>>
    /\ UNCHANGED history

\* a queue object some thread still holds: a writer blocked in get, a
\* disconnect blocked in join
Held(q) ==
    \/ \E k \in Conns : writer_pc[k] = "w_get" /\ writer_q[k] = q
    \/ app_pc = "dc_join" /\ dc_q = q

\* packet ids order the packets that exist; when the queue object is dropped
\* and no writer holds a batch, none exists and the numbering restarts
NoPacketAlive ==
    /\ queue # 0 => ~Held(queue)
    /\ \A k \in Conns : packets[k] = <<>>

\* the tasks that can still act: a reader in the join of lines 329 and 413
\* only waits for its writer
LiveTasks ==
    Cardinality({k \in Conns : Live(ping_pc[k])})
    + Cardinality({k \in Conns : Live(writer_pc[k])})
    + Cardinality({k \in Conns : reader_pc[k] = "r_wait"})

StalePackets ==
    (IF queue # 0 /\ Held(queue) THEN Len(queues[queue]) ELSE 0)
    + Cardinality(UNION {{<<k, i>> : i \in 1..Len(packets[k])} : k \in Conns})

\* connect, lines 154-157: store the transports, create the queue and enter
\* _connect_polling (the GET is in flight) or _connect_websocket.  The queue
\* object the field named before is garbage unless a thread holds it
ConnectStart(tr) ==
    /\ app_pc = "idle"
    /\ state = "disconnected"
    /\ nconn < MaxConnects
    /\ LiveTasks <= MaxStale
    /\ StalePackets <= MaxStalePackets
    /\ Effective(tr) # <<>>
    /\ transports' = Effective(tr)
    /\ nconn' = nconn + 1
    /\ queue' = nconn + 1
    /\ app_pc' = IF Effective(tr)[1] = "polling" THEN "cp_get" ELSE "cw_conn"
    /\ app_result' = "none"
    /\ queues' = [q \in Conns |->
                     IF q = queue /\ ~Held(q) THEN <<>> ELSE queues[q]]
    /\ unfinished' = [q \in Conns |->
                     IF q = queue /\ ~Held(q) THEN 0 ELSE unfinished[q]]
    /\ IF NoPacketAlive
       THEN nput' = 0 /\ sent' = <<>>
       ELSE UNCHANGED <<nput, sent>>
    /\ UNCHANGED <<state, sid, current_transport, upgrades, pong_received, ws,
                   read_loop_task, wsobj, globals, taskvars, dcvars,
                   nsend, npong>>
    /\ UNCHANGED history

\* _connect_polling, lines 254-273: the handshake GET fails.  A refused
\* connection resets and raises ConnectionError; a status other than 200
\* and an undecodable payload raise ConnectionError; a payload without an
\* OPEN packet makes open_packet[0] raise IndexError
PollingHandshakeFails(kind) ==
    /\ app_pc = "cp_get"
    /\ IF kind = "refused" THEN Reset ELSE UNCHANGED state
    /\ app_pc' = "idle"
    /\ app_result' = "raised"
    /\ UNCHANGED <<sid, current_transport, transports, upgrades, pong_received,
                   ws, read_loop_task, queue, objects, globals, taskvars,
                   dcvars, counters>>
    /\ UNCHANGED history

\* PollingAccept with the sid of the descriptor not stored
PollingAcceptNoSid(s, u) ==
    /\ sid' = sid
    /\ upgrades' = u
    /\ current_transport' = "polling"
    /\ state' = "connected"
    /\ connected_clients' = connected_clients + 1
    /\ TriggerEvent("connect")

\* _connect_polling, lines 276-285: take the OPEN descriptor, become
\* connected, register the client, invoke the connect handler
PollingAccept(s, u) ==
    /\ sid' = s
    /\ upgrades' = u
    /\ current_transport' = "polling"
    /\ state' = "connected"
    /\ connected_clients' = connected_clients + 1
    /\ TriggerEvent("connect")

\* _connect_polling, lines 252-294 and 332 on a 200 reply with an OPEN
\* packet: with websocket allowed go on to the upgrade attempt, else start
\* the polling tasks and return
PollingHandshakeOk(s, u) ==
    /\ app_pc = "cp_get"
    /\ PollingAccept(s, u)
    /\ IF HasWebsocket(transports)
       THEN /\ app_pc' = "cw_conn"
            /\ app_result' = app_result
            /\ NoTaskStarts
       ELSE /\ app_pc' = "idle"
            /\ app_result' = "returned"
            /\ StartTasks(nconn, "polling", "connected", ws)
    /\ UNCHANGED <<transports, ws, queue, wsobj, packets, dcvars, nconn,
                   nsend, npong, sent>>

\* the caller of _connect_websocket: _connect_polling (line 289) when the
\* first transport is polling, connect itself (line 156) otherwise
ViaPolling == transports[1] = "polling"

\* _connect_websocket returned False (lines 355, 363).  On the upgrade
\* attempt _connect_polling falls through to lines 293-332; on the direct
\* path connect returns the False
WebsocketFalse ==
    IF ViaPolling
    THEN /\ app_result' = "returned"
         /\ StartTasks(nconn, "polling", state, ws)
    ELSE /\ app_result' = "False"
         /\ NoTaskStarts

\* _connect_websocket, lines 340-355: sid decides upgrade; create_connection
\* is refused
WebsocketRefused ==
    /\ app_pc = "cw_conn"
    /\ app_pc' = "idle"
    /\ WebsocketFalse
    /\ UNCHANGED <<state, sid, current_transport, transports, upgrades, ws,
                   queue, wsobj, globals, packets, dcvars, nconn, nsend,
                   npong, sent>>

\* _connect_websocket, lines 340-358 and 368: the connection opens; on an
\* upgrade the probe PING is sent, then the reply is awaited
WebsocketOpened ==
    /\ app_pc = "cw_conn"
    /\ wsobj' = [wsobj EXCEPT ![nconn] = "open"]
    /\ app_pc' = IF sid # None THEN "cw_probe" ELSE "cw_open"
    /\ UNCHANGED <<fields, queues, unfinished, globals, app_result, taskvars,
                   dcvars, counters>>
    /\ UNCHANGED history

\* _connect_websocket, lines 383-417: keep the socket, start the tasks
WebsocketStart(st) ==
    /\ ws' = nconn
    /\ StartTasks(nconn, "websocket", st, nconn)

\* _connect_websocket, lines 359-366 and 383-417: the probe reply.  Only
\* PONG "probe" upgrades: UPGRADE is sent and the transport switches.  On
\* False the socket, a local, is dropped
ProbeReply(ok) ==
    /\ app_pc = "cw_probe"
    /\ app_pc' = "idle"
    /\ IF ok
       THEN /\ current_transport' = "websocket"
            /\ WebsocketStart(state)
            /\ app_result' = IF ViaPolling THEN "returned" ELSE "True"
            /\ UNCHANGED wsobj
       ELSE /\ WebsocketFalse
            /\ wsobj' = [wsobj EXCEPT ![nconn] = "none"]
            /\ UNCHANGED <<current_transport, ws>>
    /\ UNCHANGED <<state, sid, transports, upgrades, queue, globals,
                   packets, dcvars, nconn, nsend, npong, sent>>

\* _connect_websocket, lines 368-370: the first frame is not an OPEN packet;
\* the socket, a local, is dropped
DirectNoOpen ==
    /\ app_pc = "cw_open"
    /\ app_pc' = "idle"
    /\ app_result' = "raised"
    /\ wsobj' = [wsobj EXCEPT ![nconn] = "none"]
    /\ UNCHANGED <<fields, queues, unfinished, globals, taskvars, dcvars,
                   counters>>
    /\ UNCHANGED history

\* _connect_websocket, lines 373-381: take the OPEN descriptor of the frame
DirectAccept(s, u) ==
    /\ sid' = s
    /\ upgrades' = u
    /\ current_transport' = "websocket"
    /\ state' = "connected"
    /\ connected_clients' = connected_clients + 1
    /\ TriggerEvent("connect")

\* _connect_websocket, lines 368-417 on an OPEN frame
DirectOpen(s, u) ==
    /\ app_pc = "cw_open"
    /\ DirectAccept(s, u)
    /\ WebsocketStart("connected")
    /\ app_pc' = "idle"
    /\ app_result' = "True"
    /\ UNCHANGED <<transports, queue, wsobj, packets, dcvars, nconn, nsend,
                   npong, sent>>

\* ------------------------------------------------------------ _ping_task
\* the history of a prober ends with it
PingEnds(k) ==
    /\ pings' = [pings EXCEPT ![k] = 0]
    /\ rearmed' = [rearmed EXCEPT ![k] = FALSE]
    /\ UNCHANGED last_ping

\* _ping_task, lines 501-507: the PONG is missing.  Close the socket if one
\* is held, enqueue the sentinel, reset, leave
PingAbort(k) ==
    /\ wsobj' = IF ws # 0 THEN [wsobj EXCEPT ![ws] = "closed"] ELSE wsobj
    /\ queues' = PutAll(queues, queue, <<Sentinel>>)
    /\ unfinished' = MorePending(unfinished, queue, 1)
    /\ Reset
    /\ ping_pc' = [ping_pc EXCEPT ![k] = "done"]
    /\ UNCHANGED pong_received

\* PingLoop without the test of pong_received of line 500
PingLoopUnchecked(k) ==
    /\ ping_pc[k] = "p_sleep"
    /\ IF state # "connected"
       THEN /\ ping_pc' = [ping_pc EXCEPT ![k] = "done"]
            /\ PingEnds(k)
            /\ UNCHANGED <<state, pong_received, objects, nput>>
       ELSE /\ pong_received' = FALSE
            /\ queues' = PutAll(queues, queue, <<Pkt("PING", nput + 1)>>)
            /\ unfinished' = MorePending(unfinished, queue, 1)
            /\ nput' = nput + 1
            /\ ping_pc' = [ping_pc EXCEPT ![k] = "p_sleep"]
            /\ pings' = [pings EXCEPT ![k] = @ + 1]
            /\ rearmed' = [rearmed EXCEPT ![k] = FALSE]
            /\ last_ping' = "unanswered"
            /\ UNCHANGED <<state, wsobj>>
    /\ UNCHANGED <<sid, current_transport, transports, upgrades, ws,
                   read_loop_task, queue, globals, appvars, writer_pc,
                   reader_pc, reader_kind, packets, writer_q, reader_ws,
                   dcvars, nconn, nsend, npong, sent>>

\* _ping_task, lines 499-510, when the sleep of line 510 ends: leave when
\* not connected, abort when the PONG is missing, else clear the flag,
\* enqueue a PING (_send_packet, lines 438-440) and sleep
PingLoop(k) ==
    /\ ping_pc[k] = "p_sleep"
    /\ IF state # "connected"
       THEN /\ ping_pc' = [ping_pc EXCEPT ![k] = "done"]
            /\ PingEnds(k)
            /\ UNCHANGED <<state, pong_received, objects, nput>>
       ELSE IF ~pong_received
       THEN /\ PingAbort(k)
            /\ PingEnds(k)
            /\ UNCHANGED nput
       ELSE /\ pong_received' = FALSE
            /\ queues' = PutAll(queues, queue, <<Pkt("PING", nput + 1)>>)
            /\ unfinished' = MorePending(unfinished, queue, 1)
            /\ nput' = nput + 1
            /\ ping_pc' = [ping_pc EXCEPT ![k] = "p_sleep"]
            /\ pings' = [pings EXCEPT ![k] = @ + 1]
            /\ rearmed' = [rearmed EXCEPT ![k] = FALSE]
            /\ last_ping' = "unanswered"
            /\ UNCHANGED <<state, wsobj>>
    /\ UNCHANGED <<sid, current_transport, transports, upgrades, ws,
                   read_loop_task, queue, globals, appvars, writer_pc,
                   reader_pc, reader_kind, packets, writer_q, reader_ws,
                   dcvars, nconn, nsend, npong, sent>>

\* ---------------------------------------------------------- _writer_task
\* the place of the first sentinel of s, Len(s) + 1 when it holds none
SentinelAt(s) ==
    IF \E i \in 1..Len(s) : s[i] = Sentinel
    THEN CHOOSE i \in 1..Len(s) :
            /\ s[i] = Sentinel
            /\ \A j \in 1..(i - 1) : s[j] # Sentinel
    ELSE Len(s) + 1

Ids(ps) == [i \in 1..Len(ps) |-> ps[i].id]

\* _writer_task, line 517, and the start of the blocking get of line 520 on
\* the queue object the field names at that moment
WriterAgain(k) ==
    IF state = "connected"
    THEN /\ writer_pc' = [writer_pc EXCEPT ![k] = "w_get"]
         /\ writer_q' = [writer_q EXCEPT ![k] = queue]
    ELSE /\ writer_pc' = [writer_pc EXCEPT ![k] = "done"]
         /\ UNCHANGED writer_q

\* Queue.task_done on self.queue: one unfinished task less; with none left
\* it raises ValueError and changes nothing
TaskDone == [unfinished EXCEPT ![queue] = IF @ > 0 THEN @ - 1 ELSE 0]

\* _writer_task, lines 523-525 and 536-538: the item taken is the sentinel;
\* it is acknowledged on self.queue and the task leaves its loop (or ends
\* with the ValueError of task_done)
WriterTakeSentinel(k, rest) ==
    /\ queues' = rest
    /\ packets' = [packets EXCEPT ![k] = <<>>]
    /\ unfinished' = TaskDone
    /\ writer_pc' = [writer_pc EXCEPT ![k] = "done"]

\* _writer_task, lines 526-535: after the first packet, take what self.queue
\* holds without blocking, up to the first sentinel, which is consumed and
\* acknowledged (a ValueError of task_done ends the task)
WriterDrain(k, first, rest) ==
    LET s == rest[queue]
        i == SentinelAt(s)
    IN  /\ queues' = [rest EXCEPT ![queue] = SubSeq(s, i + 1, Len(s))]
        /\ IF i <= Len(s) /\ unfinished[queue] = 0
           THEN /\ writer_pc' = [writer_pc EXCEPT ![k] = "done"]
                /\ packets' = [packets EXCEPT ![k] = <<>>]
                /\ UNCHANGED unfinished
           ELSE /\ writer_pc' = [writer_pc EXCEPT ![k] = "w_send"]
                /\ packets' = [packets EXCEPT ![k] =
                                  <<first>> \o SubSeq(s, 1, i - 1)]
                /\ unfinished' = IF i <= Len(s) THEN TaskDone ELSE unfinished

\* _writer_task, lines 520-538: the blocking get returns an item
WriterTake(k) ==
    /\ writer_pc[k] = "w_get"
    /\ queues[writer_q[k]] # <<>>
    /\ LET first == Head(queues[writer_q[k]])
           rest == [queues EXCEPT ![writer_q[k]] = Tail(@)]
       IN  IF first = Sentinel
           THEN WriterTakeSentinel(k, rest)
           ELSE WriterDrain(k, first, rest)
    /\ writer_q' = [writer_q EXCEPT ![k] = 0]
    /\ UNCHANGED <<fields, wsobj, globals, appvars, ping_pc, reader_pc,
                   reader_kind, reader_ws, dcvars, counters>>
    /\ UNCHANGED history

\* _writer_task, lines 520-522: the get waited ping_timeout on an empty
\* queue; QueueEmpty is raised and ends the task
WriterTimeout(k) ==
    /\ writer_pc[k] = "w_get"
    /\ queues[writer_q[k]] = <<>>
    /\ writer_pc' = [writer_pc EXCEPT ![k] = "done"]
    /\ writer_q' = [writer_q EXCEPT ![k] = 0]
    /\ UNCHANGED <<fields, objects, globals, appvars, ping_pc, reader_pc,
                   reader_kind, packets, reader_ws, dcvars, counters>>
    /\ UNCHANGED history

\* _writer_task, lines 556-564: one frame of the batch on self.ws.  A closed
\* socket raises: reset and leave.  A frame sent is acknowledged (a
\* ValueError of task_done ends the task)
WriterFrame(k) ==
    IF wsobj[ws] # "open"
    THEN /\ Reset
         /\ writer_pc' = [writer_pc EXCEPT ![k] = "done"]
         /\ packets' = [packets EXCEPT ![k] = <<>>]
         /\ UNCHANGED <<unfinished, sent, writer_q>>
    ELSE /\ sent' = Append(sent, Head(packets[k]).id)
         /\ UNCHANGED state
         /\ IF unfinished[queue] = 0
            THEN /\ writer_pc' = [writer_pc EXCEPT ![k] = "done"]
                 /\ packets' = [packets EXCEPT ![k] = <<>>]
                 /\ UNCHANGED <<unfinished, writer_q>>
            ELSE /\ unfinished' = TaskDone
                 /\ packets' = [packets EXCEPT ![k] = Tail(@)]
                 /\ IF Len(packets[k]) > 1
                    THEN /\ writer_pc' = [writer_pc EXCEPT ![k] = "w_ws"]
                         /\ UNCHANGED writer_q
                    ELSE WriterAgain(k)

\* _writer_task, lines 539-543: the batch goes out as one POST
WriterPost(k) ==
    /\ sent' = sent \o Ids(packets[k])
    /\ packets' = [packets EXCEPT ![k] = <<>>]
    /\ writer_pc' = [writer_pc EXCEPT ![k] = "w_post"]
    /\ UNCHANGED <<state, unfinished, writer_q>>

\* _writer_task, lines 539-558: dispatch on current_transport
WriterSend(k) ==
    /\ writer_pc[k] = "w_send"
    /\ IF current_transport = "polling"
       THEN WriterPost(k)
       ELSE IF current_transport = "websocket"
       THEN WriterFrame(k)
       ELSE /\ WriterAgain(k)
            /\ packets' = [packets EXCEPT ![k] = <<>>]
            /\ UNCHANGED <<state, unfinished, sent>>
    /\ UNCHANGED <<sid, current_transport, transports, upgrades, pong_received,
                   ws, read_loop_task, queue, queues, wsobj, globals, appvars,
                   ping_pc, reader_pc, reader_kind, reader_ws,
                   dcvars, nconn, nsend, npong, nput>>
    /\ UNCHANGED history

\* _writer_task, lines 556-559: the next frame of the batch
WriterNextFrame(k) ==
    /\ writer_pc[k] = "w_ws"
    /\ WriterFrame(k)
    /\ UNCHANGED <<sid, current_transport, transports, upgrades, pong_received,
                   ws, read_loop_task, queue, queues, wsobj, globals, appvars,
                   ping_pc, reader_pc, reader_kind, reader_ws,
                   dcvars, nconn, nsend, npong, nput>>
    /\ UNCHANGED history

\* _writer_task, lines 544-553 and 517: the reply to the POST.  No reply and
\* a status other than 200 reset and leave; after a 200 the loop goes on
WriterPostReply(k, ok) ==
    /\ writer_pc[k] = "w_post"
    /\ IF ok
       THEN /\ WriterAgain(k)
            /\ UNCHANGED state
       ELSE /\ writer_pc' = [writer_pc EXCEPT ![k] = "done"]
            /\ Reset
            /\ UNCHANGED writer_q
    /\ UNCHANGED <<sid, current_transport, transports, upgrades, pong_received,
                   ws, read_loop_task, queue, objects, globals, appvars,
                   ping_pc, reader_pc, reader_kind, packets,
                   reader_ws, dcvars, counters>>
    /\ UNCHANGED history

\* ------------------------------------------------------------- disconnect
\* the locals of a disconnect call end with it
DcLocalsEnd ==
    /\ dc_abort' = FALSE
    /\ dc_q' = 0
    /\ dc_r' = 0

\* disconnect, lines 194-195
CloseIfWebsocket ==
    wsobj' = IF current_transport = "websocket"
             THEN [wsobj EXCEPT ![ws] = "closed"]
             ELSE wsobj

\* disconnect, lines 198-203: disconnected, the client leaves the registry
\* (a missing entry is ignored), _reset
DcFinish ==
    /\ state' = "disconnected"
    /\ connected_clients' =
           IF connected_clients > 0 THEN connected_clients - 1 ELSE 0

\* DisconnectCall with the state test of line 188 left out: the sentinel is
\* enqueued in any state
DisconnectCallUntested(abort) ==
    /\ app_pc = "idle"
    /\ IF state = "connected"
       THEN /\ app_pc' = "dc_close"
            /\ app_result' = "none"
            /\ dc_abort' = abort
            /\ UNCHANGED <<state, objects>>
       ELSE /\ Reset
            /\ app_result' = "nothing done"
            /\ queues' = IF queue # 0
                         THEN PutAll(queues, queue, <<Sentinel>>) ELSE queues
            /\ UNCHANGED <<app_pc, dc_abort, unfinished, wsobj>>
    /\ UNCHANGED <<sid, current_transport, transports, upgrades, pong_received,
                   ws, read_loop_task, queue, globals, taskvars,
                   dc_q, dc_r, counters>>
    /\ UNCHANGED history

\* disconnect, line 188 and line 203: a call on a client that is not
\* connected only resets and returns, having done nothing
DisconnectCall(abort) ==
    /\ app_pc = "idle"
    /\ IF state = "connected"
       THEN /\ app_pc' = "dc_close"
            /\ app_result' = "none"
            /\ dc_abort' = abort
            /\ UNCHANGED state
       ELSE /\ Reset
            /\ app_result' = "nothing done"
            /\ UNCHANGED <<app_pc, dc_abort>>
    /\ UNCHANGED <<sid, current_transport, transports, upgrades, pong_received,
                   ws, read_loop_task, queue, objects, globals, taskvars,
                   dc_q, dc_r, counters>>
    /\ UNCHANGED history

\* DcClose with the test of abort of line 192 left out: the join is entered
DcCloseJoins ==
    /\ app_pc = "dc_close"
    /\ IF state = "connected"
       THEN /\ queues' = PutAll(queues, queue,
                                <<Pkt("CLOSE", nput + 1), Sentinel>>)
            /\ unfinished' = MorePending(unfinished, queue, 2)
            /\ nput' = nput + 1
       ELSE /\ queues' = PutAll(queues, queue, <<Sentinel>>)
            /\ unfinished' = MorePending(unfinished, queue, 1)
            /\ UNCHANGED nput
    /\ state' = "disconnecting"
    /\ dc_q' = queue
    /\ app_pc' = "dc_join"
    /\ UNCHANGED <<sid, current_transport, transports, upgrades, pong_received,
                   ws, read_loop_task, queue, wsobj, globals, app_result,
                   taskvars, dc_abort, dc_r, nconn, nsend, npong, sent>>
    /\ UNCHANGED history

\* disconnect, lines 189-191: _send_packet(CLOSE) enqueues only if still
\* connected; the sentinel follows; the state becomes disconnecting; then
\* the join of line 193 starts on the queue object of that moment
DcClose ==
    /\ app_pc = "dc_close"
    /\ IF state = "connected"
       THEN /\ queues' = PutAll(queues, queue,
                                <<Pkt("CLOSE", nput + 1), Sentinel>>)
            /\ unfinished' = MorePending(unfinished, queue, 2)
            /\ nput' = nput + 1
       ELSE /\ queues' = PutAll(queues, queue, <<Sentinel>>)
            /\ unfinished' = MorePending(unfinished, queue, 1)
            /\ UNCHANGED nput
    /\ state' = "disconnecting"
    /\ dc_q' = queue
    /\ app_pc' = IF dc_abort THEN "dc_fin" ELSE "dc_join"
    /\ UNCHANGED <<sid, current_transport, transports, upgrades, pong_received,
                   ws, read_loop_task, queue, wsobj, globals, app_result,
                   taskvars, dc_abort, dc_r, nconn, nsend, npong, sent>>
    /\ UNCHANGED history

\* disconnect, lines 193-197: every item of the queue is acknowledged; the
\* socket is closed if the transport is websocket; the join of the reader
\* starts on the task read_loop_task names at that moment
DcJoin ==
    /\ app_pc = "dc_join"
    /\ unfinished[dc_q] = 0
    /\ CloseIfWebsocket
    /\ dc_r' = read_loop_task
    /\ app_pc' = "dc_rjoin"
    /\ UNCHANGED <<fields, queues, unfinished, globals, app_result, taskvars,
                   dc_abort, dc_q, counters>>
    /\ UNCHANGED history

\* disconnect, lines 197-203: the reader has ended
DcReaderJoined ==
    /\ app_pc = "dc_rjoin"
    /\ ~Live(reader_pc[dc_r])
    /\ DcFinish
    /\ DcLocalsEnd
    /\ app_pc' = "idle"
    /\ app_result' = "disconnected"
    /\ UNCHANGED <<sid, current_transport, transports, upgrades, pong_received,
                   ws, read_loop_task, queue, objects, handler_calls, taskvars,
                   counters>>
    /\ UNCHANGED history

\* disconnect(abort=True), lines 194-203: no join
DcAbortFinish ==
    /\ app_pc = "dc_fin"
    /\ CloseIfWebsocket
    /\ DcFinish
    /\ DcLocalsEnd
    /\ app_pc' = "idle"
    /\ app_result' = "none"
    /\ UNCHANGED <<sid, current_transport, transports, upgrades, pong_received,
                   ws, read_loop_task, queue, queues, unfinished,
                   handler_calls, taskvars, counters>>
    /\ UNCHANGED history

\* ------------------------------------------------------------------- send
\* send and _send_packet, lines 179 and 438-439: the state check
SendCall ==
    /\ app_pc = "idle"
    /\ nsend < MaxSends
    /\ app_pc' = IF state = "connected" THEN "send_put" ELSE "idle"
    /\ app_result' = "none"
    /\ UNCHANGED <<fields, objects, globals, taskvars, dcvars, counters>>
    /\ UNCHANGED history

\* _send_packet, line 440, for the MESSAGE of send
SendPut ==
    /\ app_pc = "send_put"
    /\ queues' = PutAll(queues, queue, <<Pkt("MESSAGE", nput + 1)>>)
    /\ unfinished' = MorePending(unfinished, queue, 1)
    /\ nput' = nput + 1
    /\ nsend' = nsend + 1
    /\ app_pc' = "idle"
    /\ app_result' = "none"
    /\ UNCHANGED <<fields, wsobj, globals, taskvars, dcvars, nconn, npong,
                   sent>>
    /\ UNCHANGED history

\* -------------------------------------------------------------- read_loop
\* read_loop, lines 326-329 and 410-413, after the loop: the state, read
\* again at once, is not connected, so disconnect is not called; the join of
\* the writer starts
ReaderLeaves(k) ==
    /\ reader_pc' = [reader_pc EXCEPT ![k] = "r_join"]
    /\ reader_ws' = [reader_ws EXCEPT ![k] = 0]

\* the cleanup of a fatal receive error (lines 306-308, 312-314, 320-322,
\* 396-398, 402-404): enqueue the sentinel, reset, leave the loop
ReaderAbort(k) ==
    /\ queues' = PutAll(queues, queue, <<Sentinel>>)
    /\ unfinished' = MorePending(unfinished, queue, 1)
    /\ Reset
    /\ ReaderLeaves(k)

\* _receive_packet, lines 426-434: PONG sets pong_received; MESSAGE goes to
\* the message handler; NOOP and the unexpected types change nothing
ReceivePacket(type) ==
    IF type = "PONG"
    THEN /\ pong_received' = TRUE
         /\ rearmed' = [j \in Conns |-> pings[j] > 0]
         /\ last_ping' = IF last_ping = "none" THEN "none" ELSE "answered"
         /\ UNCHANGED pings
    ELSE UNCHANGED <<pong_received, history>>

\* read_loop, lines 298-302 and 389-392: the loop test, then the GET is
\* issued or recv starts on the socket self.ws names
ReaderAgain(k) ==
    IF state = "connected"
    THEN /\ reader_pc' = [reader_pc EXCEPT ![k] = "r_wait"]
         /\ reader_ws' = [reader_ws EXCEPT ![k] =
                IF reader_kind[k] = "websocket" THEN ws ELSE 0]
    ELSE ReaderLeaves(k)

\* read_loop of _connect_polling, lines 303-322: no reply, a status other
\* than 200, an undecodable payload
ReaderPollFails(k) ==
    /\ reader_pc[k] = "r_wait"
    /\ reader_kind[k] = "polling"
    /\ ReaderAbort(k)
    /\ UNCHANGED <<sid, current_transport, transports, upgrades, pong_received,
                   ws, read_loop_task, queue, wsobj, globals, appvars,
                   ping_pc, writer_pc, reader_kind, packets, writer_q,
                   dcvars, counters>>
    /\ UNCHANGED history

\* read_loop of _connect_websocket, lines 391-404: recv raises, because the
\* socket was closed on this side or because the server ended it
ReaderRecvFails(k) ==
    /\ reader_pc[k] = "r_wait"
    /\ reader_kind[k] = "websocket"
    /\ wsobj' = [wsobj EXCEPT ![reader_ws[k]] = "closed"]
    /\ ReaderAbort(k)
    /\ UNCHANGED <<sid, current_transport, transports, upgrades, pong_received,
                   ws, read_loop_task, queue, globals, appvars, ping_pc,
                   writer_pc, reader_kind, packets, writer_q,
                   dcvars, counters>>
    /\ UNCHANGED history

\* read_loop, lines 323-324 and 405-408: a packet arrives (a payload, or a
\* frame of an open socket) and goes to _receive_packet
ReaderReceives(k, type) ==
    /\ reader_pc[k] = "r_wait"
    /\ reader_kind[k] = "websocket" => wsobj[reader_ws[k]] = "open"
    /\ type = "PONG" => npong < MaxPongs
    /\ npong' = IF type = "PONG" THEN npong + 1 ELSE npong
    /\ ReceivePacket(type)
    /\ ReaderAgain(k)
    /\ UNCHANGED <<state, sid, current_transport, transports, upgrades, ws,
                   read_loop_task, queue, objects, globals, appvars, ping_pc,
                   writer_pc, reader_kind, packets, writer_q,
                   dcvars, nconn, nsend, nput, sent>>

\* read_loop, lines 328-330 and 412-414: writer_task.join()
ReaderJoin(k) ==
    /\ reader_pc[k] = "r_join"
    /\ ~Live(writer_pc[k])
    /\ reader_pc' = [reader_pc EXCEPT ![k] = "done"]
    /\ UNCHANGED <<fields, objects, globals, appvars, ping_pc, writer_pc,
                   reader_kind, packets, writer_q, reader_ws, dcvars, counters>>
    /\ UNCHANGED history

\* ------------------------------------------------------------------- Next
\* the calls the application makes when no call of its is in progress
AppCall ==
    \/ ConnectRejected
    \/ \E tr \in TransportArgs : ConnectNoValid(tr)
    \/ \E tr \in TransportArgs : ConnectStart(tr)
    \/ SendCall
    \/ \E abort \in BOOLEAN : DisconnectCall(abort)

\* the steps of a connect call in progress: the server's replies
ConnectStep ==
    \/ \E kind \in {"refused", "status", "payload", "noopen"} :
           PollingHandshakeFails(kind)
    \/ PollingHandshakeOk(ServerSid(nconn), ServerUpgrades(nconn))
    \/ WebsocketRefused
    \/ WebsocketOpened
    \/ \E ok \in BOOLEAN : ProbeReply(ok)
    \/ DirectNoOpen
    \/ DirectOpen(ServerSid(nconn), ServerUpgrades(nconn))

\* the steps of a running disconnect call
DisconnectStep ==
    \/ DcClose
    \/ DcJoin
    \/ DcReaderJoined
    \/ DcAbortFinish

PingStep == \E k \in Conns : PingLoop(k)

WriterStep ==
    \E k \in Conns :
        \/ WriterTake(k)
        \/ WriterTimeout(k)
        \/ WriterSend(k)
        \/ WriterNextFrame(k)
        \/ \E ok \in BOOLEAN : WriterPostReply(k, ok)

\* the reader's steps but the receipt of a packet
ReaderStep ==
    \E k \in Conns :
        \/ ReaderPollFails(k)
        \/ ReaderRecvFails(k)
        \/ ReaderJoin(k)

ReaderGetsOther == \E k \in Conns : ReaderReceives(k, "MESSAGE")

ReaderGetsPong == \E k \in Conns : ReaderReceives(k, "PONG")

Next ==
    \/ AppCall
    \/ ConnectStep
    \/ SendPut
    \/ DisconnectStep
    \/ PingStep
    \/ WriterStep
    \/ ReaderStep
    \/ ReaderGetsOther
    \/ ReaderGetsPong

Spec == Init /\ [][Next]_vars

\* ------------------------------------------ a server that never sends PONG
NextNoPong ==
    \/ AppCall
    \/ ConnectStep
    \/ SendPut
    \/ DisconnectStep
    \/ PingStep
    \/ WriterStep
    \/ ReaderStep
    \/ ReaderGetsOther

\* recv on a socket this side closed raises
ReaderSeesClose ==
    \E k \in Conns :
        /\ reader_ws[k] # 0
        /\ wsobj[reader_ws[k]] = "closed"
        /\ ReaderRecvFails(k)

\* every started thread keeps running, a call in progress goes on, the sleep
\* of the prober and the timed get of the writer end, the server answers the
\* requests of connect and the long poll; the application need not call
SpecNoPong ==
    /\ Init
    /\ [][NextNoPong]_vars
    /\ WF_vars(ConnectStep)
    /\ WF_vars(SendPut)
    /\ WF_vars(DisconnectStep)
    /\ WF_vars(PingStep)
    /\ WF_vars(WriterStep)
    /\ WF_vars(ReaderGetsOther)
    /\ WF_vars(ReaderSeesClose)
    /\ WF_vars(\E k \in Conns : ReaderJoin(k))

\* ---------------------------------------------------------------- claims
LivePings == {k \in Conns : Live(ping_pc[k])}
LiveWriters == {k \in Conns : Live(writer_pc[k])}
LiveReaders == {k \in Conns : Live(reader_pc[k])}

\* the running connect call ends in this step
ConnectEnds ==
    /\ app_pc \in {"cp_get", "cw_conn", "cw_probe", "cw_open"}
    /\ app_pc' = "idle"

\* prober k enqueues a PING in this step
PingBy(k) == pings'[k] = pings[k] + 1

\* C1: in every reachable state, a connected client has a sid and its
\* current transport is polling or websocket
C1_ConnectedHasSidAndTransport ==
    state = "connected" =>
        /\ sid # None
        /\ current_transport \in {"polling", "websocket"}

\* a client connected again, in its second session or a later one
C1_ConnectedAgain ==
    /\ state = "connected"
    /\ handler_calls.connect >= 2
    /\ sid = ServerSid(nconn)

\* C2: every step that takes the state out of connected invokes the
\* disconnect handler exactly once
C2_DisconnectHandlerOnce ==
    [][(state = "connected" /\ state' # "connected") =>
          handler_calls'.disconnect = handler_calls.disconnect + 1]_vars

\* C3: once disconnect(abort=False), called on a connected client, has
\* returned, the state is disconnected and no prober, writer or reader is
\* alive
C3_NothingRunsAfterDisconnect ==
    (app_pc = "idle" /\ app_result = "disconnected") =>
        /\ state = "disconnected"
        /\ LivePings = {} /\ LiveWriters = {} /\ LiveReaders = {}

\* C4: a writer that ends while disconnect(abort=False) waits, other than by
\* the timeout of its get, leaves no accepted packet unsent: every packet
\* enqueued so far, the CLOSE included, was handed to the transport
C4_WriterEndsDrained ==
    [][\A k \in Conns :
          (/\ app_pc = "dc_join"
           /\ state = "disconnecting" /\ state' = "disconnecting"
           /\ Live(writer_pc[k]) /\ ~Live(writer_pc'[k])
           /\ ~(writer_pc[k] = "w_get" /\ queues[writer_q[k]] = <<>>))
          => \A i \in 1..nput' : i \in {sent'[j] : j \in 1..Len(sent')}]_vars

\* C5: the packets are handed to the transport in the order of their
\* enqueueing, each once: the ids sent increase strictly
C5_SentInEnqueueOrder ==
    \A i, j \in 1..Len(sent) : i < j => sent[i] < sent[j]

\* C6: when a PING is enqueued after an earlier PING of the client, a PONG
\* was received in between or the state is not connected
C6_PongBetweenPings ==
    [][(\E k \in Conns : PingBy(k)) /\ last_ping # "none" =>
          last_ping = "answered" \/ state' # "connected"]_vars

\* C6 as amended: when a prober enqueues a PING after an earlier PING of its
\* own, pong_received was set in between, by a PONG received or by the start
\* of another prober, or the state is not connected
C6_RearmedBetweenOwnPings ==
    [][\A k \in Conns :
          pings[k] > 0 /\ PingBy(k) => rearmed[k] \/ state' # "connected"]_vars

\* a prober has enqueued its second PING
C6_SecondPing == \E k \in Conns : pings[k] >= 2

\* C7: with a server that never sends PONG and under fair scheduling, a
\* connected client whose PING is unanswered becomes disconnected
C7_UnansweredPingDisconnects ==
    (state = "connected" /\ last_ping = "unanswered") ~> state = "disconnected"

\* C8: at every moment at most one prober, one writer and one reader are
\* alive, and tasks are started only in the state connected
C8_OneOfEachStartedConnected ==
    [][/\ Cardinality(LivePings') <= 1
       /\ Cardinality(LiveWriters') <= 1
       /\ Cardinality(LiveReaders') <= 1
       /\ \A k \in Conns :
              reader_pc[k] = "none" /\ reader_pc'[k] # "none" =>
                  state' = "connected"]_vars

\* C9: a connect call that ends without a session raises an error, leaves
\* the state disconnected, starts no task and invokes no disconnect handler
C9_FailedConnectRaises ==
    [][ConnectEnds /\ app_result' \notin {"returned", "True"} =>
          /\ app_result' = "raised"
          /\ state' = "disconnected"
          /\ UNCHANGED <<ping_pc, writer_pc, reader_pc>>
          /\ handler_calls'.disconnect = handler_calls.disconnect]_vars

\* C10: a connect call made while the state is not disconnected raises and
\* changes nothing of the session: fields, queue objects, sockets, tasks
C10_RejectedConnectChangesNothing ==
    [][(/\ app_pc = "idle"
        /\ state # "disconnected"
        /\ app_result # "raised"
        /\ app_result' = "raised")
       => UNCHANGED <<fields, objects, globals, taskvars, dcvars>>]_vars

\* connect has raised on a connected client
C10_RaisedWhileConnected ==
    /\ app_pc = "idle"
    /\ app_result = "raised"
    /\ state = "connected"

\* the upgrade attempt of a connect call that began with polling ends in this
\* step with the probe answered by PONG "probe"
UpgradeDone ==
    /\ app_pc = "cw_probe"
    /\ ViaPolling
    /\ app_pc' = "idle"
    /\ current_transport' = "websocket"

\* C11: when the polling handshake succeeded and the probe is answered, then
\* on return the transport is websocket, the state is connected with the sid
\* of the handshake, the three tasks of this connect run on the WebSocket,
\* and the connect handler was invoked once, at the handshake, and not again
C11_UpgradeSucceeds ==
    [][/\ UpgradeDone =>
             /\ state' = "connected"
             /\ sid' = ServerSid(nconn)
             /\ reader_kind'[nconn] = "websocket"
             /\ reader_pc'[nconn] = "r_wait"
             /\ Live(writer_pc'[nconn])
             /\ Live(ping_pc'[nconn])
       /\ app_pc = "cp_get" /\ app_pc' = "cw_conn" =>
             handler_calls'.connect = handler_calls.connect + 1
       /\ app_pc \in {"cw_conn", "cw_probe"} =>
             handler_calls'.connect = handler_calls.connect]_vars

\* the upgrade attempt of a connect call that began with polling ends in this
\* step without an upgrade: the WebSocket was refused or the probe reply was
\* not PONG "probe"
UpgradeFailed ==
    /\ app_pc \in {"cw_conn", "cw_probe"}
    /\ ViaPolling
    /\ app_pc' = "idle"
    /\ current_transport' # "websocket"

\* C12: when the polling handshake succeeded and the upgrade attempt fails,
\* the transport stays polling, the state stays connected with the sid of
\* the handshake, and the polling reader, writer and prober are started
C12_UpgradeFailureFallsBack ==
    [][UpgradeFailed =>
          /\ current_transport' = "polling"
          /\ state' = "connected"
          /\ sid' = ServerSid(nconn)
          /\ reader_kind'[nconn] = "polling"
          /\ reader_pc'[nconn] = "r_wait"
          /\ Live(writer_pc'[nconn])
          /\ Live(ping_pc'[nconn])]_vars

\* C13: disconnect(abort=True) on a connected client never waits: it is at
\* no join, its next step can always be taken whatever the tasks are doing,
\* and when it returns no error was raised and the state is disconnected
C13_AbortNeverWaits ==
    /\ [](dc_abort => /\ app_pc \in {"dc_close", "dc_fin"}
                      /\ ENABLED DisconnectStep)
    /\ [][dc_abort /\ app_pc' = "idle" =>
             /\ state' = "disconnected"
             /\ app_result' # "raised"]_vars

\* disconnect(abort=True) has made its puts while a writer waits for the
\* reply to its POST and the reader for the reply to its GET
C13_AbortWhileWriterPosts ==
    /\ dc_abort
    /\ app_pc = "dc_fin"
    /\ \E k \in Conns : writer_pc[k] = "w_post" /\ reader_pc[k] = "r_wait"

\* C14: a disconnect call on a disconnected client is a no-op: the state
\* stays disconnected, nothing is enqueued, no socket is closed, no handler
\* is invoked and the registry is unchanged
C14_DisconnectWhenDisconnectedNoOp ==
    [][(/\ app_pc = "idle"
        /\ state = "disconnected"
        /\ app_result' = "nothing done"
        /\ \E abort \in BOOLEAN : DisconnectCall(abort))
       => /\ state' = "disconnected"
          /\ UNCHANGED <<queues, unfinished, wsobj, handler_calls,
                         connected_clients, taskvars>>]_vars

\* disconnect has returned from a call on a client that a reset had left
\* disconnected, with the queue of the ended session still held by its writer
C14_NoOpAfterReset ==
    /\ app_pc = "idle"
    /\ app_result = "nothing done"
    /\ state = "disconnected"
    /\ queue # 0
    /\ Held(queue)

\* C15: a packet (MESSAGE, PING, CLOSE) is appended to the queue only at a
\* moment when the state is connected
C15_PacketsEnqueuedOnlyConnected ==
    [][nput' = nput + 1 => state = "connected" \/ state' = "connected"]_vars

\* C16: when opening the WebSocket is refused, the upgrade attempt fails and
\* connect returns with the polling session; on the direct path connect
\* raises and the state stays disconnected
C16_RefusedWebsocket ==
    [][app_pc = "cw_conn" /\ app_pc' = "idle" =>
          IF ViaPolling
          THEN app_result' = "returned" /\ current_transport' = "polling"
          ELSE app_result' = "raised" /\ state' = "disconnected"]_vars

\* C17: a connect call whose first transport is websocket never runs the
\* probe protocol of an upgrade
C17_DirectConnectNeverProbes ==
    app_pc = "cw_probe" => ViaPolling

\* --------------------------- a server that answers every request with 200
\* the handshake GET is answered with an OPEN packet, the WebSocket opens,
\* the probe is answered (with PONG "probe" or with something else), the
\* first frame is an OPEN packet
ConnectAnswered ==
    \/ PollingHandshakeOk(ServerSid(nconn), ServerUpgrades(nconn))
    \/ WebsocketOpened
    \/ \E ok \in BOOLEAN : ProbeReply(ok)
    \/ DirectOpen(ServerSid(nconn), ServerUpgrades(nconn))

\* the writer's steps when every POST is answered with 200 and the get does
\* not time out
WriterAnswered ==
    \E k \in Conns :
        \/ WriterTake(k)
        \/ WriterSend(k)
        \/ WriterNextFrame(k)
        \/ WriterPostReply(k, TRUE)

NextAnswered ==
    \/ AppCall
    \/ ConnectAnswered
    \/ SendPut
    \/ DisconnectStep
    \/ PingStep
    \/ WriterAnswered
    \/ ReaderGetsOther
    \/ ReaderGetsPong
    \/ ReaderSeesClose
    \/ \E k \in Conns : ReaderJoin(k)

\* every started thread keeps running, a call in progress goes on, the sleep
\* of the prober ends, every request is answered; the application need not
\* call and the server need not send a PONG
SpecAnswered ==
    /\ Init
    /\ [][NextAnswered]_vars
    /\ WF_vars(ConnectAnswered)
    /\ WF_vars(SendPut)
    /\ WF_vars(DisconnectStep)
    /\ WF_vars(PingStep)
    /\ WF_vars(WriterAnswered)
    /\ WF_vars(ReaderGetsOther)
    /\ WF_vars(ReaderSeesClose)
    /\ WF_vars(\E k \in Conns : ReaderJoin(k))

\* C18: under fair scheduling and a server that answers every request with
\* 200, a disconnect(abort=False) that waits for the acknowledgements of the
\* queue eventually returns
C18_DisconnectReturns ==
    (app_pc = "dc_join") ~> (app_pc = "idle")

\* ------------------------------------------------ sessions that may go on
\* a prober whose sleep ends when the client is not connected leaves
PingLeaves == \E k \in Conns : state # "connected" /\ PingLoop(k)

\* every started thread keeps running, a call in progress goes on, every
\* request is answered or fails, the timed get of the writer ends, and a
\* prober that wakes in an ended session leaves.  A session may last: the
\* rounds of PING and PONG of a connected client have no end in the code,
\* where MaxPongs cuts them short, so the waking of a prober while the
\* client is connected is not forced
SpecLasting ==
    /\ Init
    /\ [][Next]_vars
    /\ WF_vars(ConnectStep)
    /\ WF_vars(SendPut)
    /\ WF_vars(DisconnectStep)
    /\ WF_vars(PingLeaves)
    /\ WF_vars(WriterStep)
    /\ WF_vars(ReaderGetsOther)
    /\ WF_vars(ReaderSeesClose)
    /\ WF_vars(\E k \in Conns : ReaderJoin(k))

\* the client was connected and is disconnected with no call in progress,
\* and no disconnect call has ever reached lines 198-202 (the registry holds
\* an entry for every connect handler invoked): the state was reset by a
\* task, on a fatal error
EndedByReset ==
    /\ state = "disconnected"
    /\ app_pc = "idle"
    /\ handler_calls.connect > 0
    /\ connected_clients = handler_calls.connect

\* C19: after a fatal error has reset the session of connect call k, the
\* prober, the writer and the reader of that session all end eventually
C19_TasksEndAfterFatalError ==
    \A k \in Conns :
        (EndedByReset /\ nconn = k) ~>
            (~Live(ping_pc[k]) /\ ~Live(writer_pc[k]) /\ ~Live(reader_pc[k]))

\* C20: the state changes only from disconnected to connected, from
\* connected to disconnecting or to disconnected, and from disconnecting to
\* disconnected
C20_StateTransitions ==
    [][state' # state =>
          <<state, state'>> \in {<<"disconnected", "connected">>,
                                 <<"connected", "disconnecting">>,
                                 <<"connected", "disconnected">>,
                                 <<"disconnecting", "disconnected">>}]_vars

\* C21: the upgrade of a polling session is attempted (a WebSocket is being
\* opened, or the probe is awaited) only when websocket is among the
\* transports of the application and among the upgrades of the server's OPEN
\* descriptor
C21_UpgradeOnlyIfBothPermit ==
    (app_pc \in {"cw_conn", "cw_probe"} /\ ViaPolling) =>
        /\ HasWebsocket(transports)
        /\ "websocket" \in upgrades

\* C22: while the client is connected and the prober of the session runs,
\* the timed get of the session's writer never elapses on an empty queue:
\* QueueEmpty is not raised
C22_WriterWaitNeverElapses ==
    [][\A k \in Conns :
          (/\ state = "connected"
           /\ nconn = k
           /\ Live(ping_pc[k])
           /\ writer_pc[k] = "w_get"
           /\ queues[writer_q[k]] = <<>>)
          => writer_pc'[k] # "done"]_vars

====
